---- MODULE Spec2Model ----
(***************************************************************************)
(* taskmgr: a line-oriented task manager (src/taskmgr.py).                 *)
(*                                                                         *)
(* The state is the module-level store `_tasks`, the id allocator          *)
(* `_next_id`, the wall clock read by now_ctime_str, and, for stating      *)
(* properties, the last line handed to process_line with what it printed   *)
(* or raised.  Strings are TLA+ strings drawn from a finite universe; the  *)
(* string functions of the program (int, str, lower, isdigit, the date     *)
(* regex) are tabulated on that universe.  A command line is its command   *)
(* word, the sequence of tokens after it, and its length in characters.    *)
(***************************************************************************)
EXTENDS Integers, Sequences, FiniteSets, TLC

VARIABLES
    tasks,      \* _tasks: the store, a sequence of task records
    next_id,    \* _next_id
    now,        \* the clock datetime.now() reads, in seconds
    line,       \* the last line handed to process_line
    out,        \* what that call printed or raised
    old,        \* the store and allocator as that call found them
    adds,       \* successful adds since the last clear_state
    file,       \* the lines of the file run_from_file reads
    nread,      \* how many of them the driver has read
    stdout      \* what the run has printed, line by line

vars == <<tasks, next_id, now, line, out, old, adds, file, nread, stdout>>

(***************************************************************************)
(* Bounds of the model.                                                    *)
(***************************************************************************)
\* adds are taken while _next_id is below this
MaxId == 3
\* the clock ticks up to this many seconds
MaxClock == 1

(***************************************************************************)
(* Configuration / enums (taskmgr.py 17-28).                               *)
(***************************************************************************)
PRIORITY_ORDER == [LOW |-> 0, MEDIUM |-> 1, HIGH |-> 2]
VALID_PRIOS == DOMAIN PRIORITY_ORDER
VALID_REPS == {"NONE", "DAILY", "WEEKLY", "MONTHLY"}
VALID_DIRECTION == {"asc", "desc"}
DEFAULT_PRIORITY == "MEDIUM"
DEFAULT_REP == "NONE"
DEFAULT_DUE == "NONE"
PROPERTIES == {"name", "type", "desc", "due", "rep", "prio", "done", "ctime", "id"}
\* len(line) > 1024 raises TooLongLine
MaxLineLen == 1024

(***************************************************************************)
(* String functions, tabulated on the strings the model feeds.             *)
(***************************************************************************)
\* str.lower()
Lower(s) ==
    CASE s = "A" -> "a"
      [] s = "B" -> "b"
      [] s = "School" -> "school"
      [] s = "SCHOOL" -> "school"
      [] s = "NONE" -> "none"
      [] s = "DAILY" -> "daily"
      [] s = "WEEKLY" -> "weekly"
      [] s = "MONTHLY" -> "monthly"
      [] s = "LOW" -> "low"
      [] s = "MEDIUM" -> "medium"
      [] s = "HIGH" -> "high"
      [] s = "True" -> "true"
      [] s = "False" -> "false"
      [] s = "FALSE" -> "false"
      [] s = "X" -> "x"
      [] OTHER -> s

\* str.isdigit(): non-empty and every character a digit
IsDigit(s) == s \in {"0", "1", "2", "3", "4", "5", "7", "01", "999"}

\* int(s) succeeds (optional sign, digits, surrounding whitespace allowed)
IsInt(s) == s \in {"0", "1", "2", "3", "4", "5", "7", "01", "999", "-1"}

\* int(s)
IntOf(s) ==
    CASE s = "0" -> 0
      [] s = "1" -> 1
      [] s = "01" -> 1
      [] s = "2" -> 2
      [] s = "3" -> 3
      [] s = "4" -> 4
      [] s = "5" -> 5
      [] s = "7" -> 7
      [] s = "999" -> 999
      [] s = "-1" -> -1

\* str(n) for the ids the allocator hands out
IdStrings == <<"0", "1", "2", "3", "4", "5">>

\* str(v) of a stored field value: a string is itself, a bool is True/False,
\* an id is its decimal numeral
Str(prop, v) ==
    CASE prop = "done" -> (IF v THEN "True" ELSE "False")
      [] prop = "id" -> IdStrings[v + 1]
      [] OTHER -> v

(***************************************************************************)
(* Dates (taskmgr.py 63-73).                                               *)
(***************************************************************************)
\* re.fullmatch(r"(\d{1,2})-(\d{1,2})-(\d{4})", s) and the three int() calls:
\* <<day, month, year>> of a matching string
DateFields(s) ==
    CASE s = "05-10-2025" -> <<5, 10, 2025>>
      [] s = "5-10-2025" -> <<5, 10, 2025>>
      [] s = "1-1-2025" -> <<1, 1, 2025>>
      [] s = "29-02-2024" -> <<29, 2, 2024>>
      [] s = "31-02-2025" -> <<31, 2, 2025>>
      [] s = "0-1-2025" -> <<0, 1, 2025>>
      [] s = "1-13-2025" -> <<1, 13, 2025>>
      [] s = "1-1-0000" -> <<1, 1, 0>>
      [] OTHER -> <<>>

IsLeap(y) == y % 4 = 0 /\ (y % 100 # 0 \/ y % 400 = 0)

DaysInMonth(y, m) ==
    IF m = 2 THEN (IF IsLeap(y) THEN 29 ELSE 28)
    ELSE IF m \in {4, 6, 9, 11} THEN 30 ELSE 31

\* datetime.date(year, month, day) accepts
ValidDate(d, m, y) ==
    /\ y >= 1 /\ y <= 9999
    /\ m >= 1 /\ m <= 12
    /\ d >= 1 /\ d <= DaysInMonth(y, m)

RECURSIVE DaysBeforeMonth(_, _)
DaysBeforeMonth(y, m) ==
    IF m = 1 THEN 0 ELSE DaysBeforeMonth(y, m - 1) + DaysInMonth(y, m - 1)

\* date.toordinal()
ToOrdinal(d, m, y) ==
    LET p == y - 1
    IN  p * 365 + (p \div 4) - (p \div 100) + (p \div 400) + DaysBeforeMonth(y, m) + d

\* parse_date_str without the NONE sentinel
parse_date_str_no_sentinel(s) ==
    LET f == DateFields(s)
    IN  IF f = <<>> THEN [res |-> "bad", ord |-> 0]
        ELSE IF ~ValidDate(f[1], f[2], f[3]) THEN [res |-> "bad", ord |-> 0]
        ELSE [res |-> "date", ord |-> ToOrdinal(f[1], f[2], f[3])]

\* parse_date_str: "none" for the sentinel, "bad" for InvalidDateFormat,
\* else the date (here its ordinal)
parse_date_str(s) ==
    IF s = "NONE" THEN [res |-> "none", ord |-> 0]
    ELSE LET f == DateFields(s)
         IN  IF f = <<>> THEN [res |-> "bad", ord |-> 0]
             ELSE IF ~ValidDate(f[1], f[2], f[3]) THEN [res |-> "bad", ord |-> 0]
             ELSE [res |-> "date", ord |-> ToOrdinal(f[1], f[2], f[3])]

\* parse_bool_str: "bad" for InvalidDoneStatus
parse_bool_str(s) ==
    IF s = "True" \/ s = "true" THEN [res |-> "ok", val |-> TRUE]
    ELSE IF s = "False" \/ s = "false" THEN [res |-> "ok", val |-> FALSE]
    ELSE [res |-> "bad", val |-> FALSE]

\* now_ctime_str() at clock reading n
CtimeStrings == <<"1-11-2026 09:00:00", "1-11-2026 09:00:01",
                  "1-11-2026 09:00:02", "1-11-2026 09:00:03">>

now_ctime_str(n) == CtimeStrings[n + 1]

(***************************************************************************)
(* Command lines.                                                          *)
(*   text: "blank"   line.strip() is empty                                 *)
(*         "comment" line.strip() starts with #                            *)
(*         "noword"  re.match(r"^\s*(\w+)") fails                          *)
(*         "cmd"     a command word `cmd` followed by the tokens `toks`    *)
(*   toks: the whitespace-separated pieces of the rest; a piece is a       *)
(*         key=value pair (junk FALSE) or text ARG_PAIR_RE does not match  *)
(*   len:  len(line) after rstrip("\n")                                    *)
(***************************************************************************)
Pair(k, v) == [k |-> k, v |-> v, junk |-> FALSE]
Junk == [k |-> "", v |-> "", junk |-> TRUE]
Cmd(c, toks) == [text |-> "cmd", cmd |-> c, toks |-> toks, len |-> 40]
Padded(l, n) == [l EXCEPT !.len = n]
NoLine == [text |-> "blank", cmd |-> "", toks |-> <<>>, len |-> 0]

(***************************************************************************)
(* Tokenizer (taskmgr.py 91-110).                                          *)
(***************************************************************************)
\* index of the last key=value match, 0 when there is none
LastPair(toks) ==
    LET ps == {i \in DOMAIN toks : ~toks[i].junk}
    IN  IF ps = {} THEN 0 ELSE CHOOSE i \in ps : \A j \in ps : j <= i

\* args[key] = val for every match in order: a repeated key keeps the last
ArgsOf(toks) ==
    LET ps == {i \in DOMAIN toks : ~toks[i].junk}
        keys == {toks[i].k : i \in ps}
    IN  [k \in keys |->
            toks[CHOOSE i \in ps : toks[i].k = k
                                   /\ \A j \in ps : toks[j].k = k => j <= i].v]

\* tokenize_args_segment: InvalidArgument when text is left after the last match
tokenize_args_segment(toks) ==
    IF \E i \in DOMAIN toks : i > LastPair(toks)
    THEN [err |-> "InvalidArgument", args |-> <<>>]
    ELSE [err |-> "", args |-> ArgsOf(toks)]

\* dict.get(key, default)
Get(args, k, default) == IF k \in DOMAIN args THEN args[k] ELSE default

(***************************************************************************)
(* What a handler leaves behind: the store and allocator as it returns or  *)
(* raises, the exception raised ("" for none) and the table rows printed.  *)
(***************************************************************************)
Raise(kind, ts, nid) ==
    [err |-> kind, tasks |-> ts, next_id |-> nid, shown |-> "", rows |-> <<>>]

\* shown: what follows the success line ("" nothing, "usage", "table")
Return(ts, nid, shown, rows) ==
    [err |-> "", tasks |-> ts, next_id |-> nid, shown |-> shown, rows |-> rows]

\* NewTask with "id": len(_tasks)
NewTaskIdFromLen(args, nid, clock) ==
    [name |-> args["name"],
     type |-> Get(args, "type", "NONE"),
     desc |-> Get(args, "desc", ""),
     due |-> Get(args, "due", DEFAULT_DUE),
     rep |-> Get(args, "rep", DEFAULT_REP),
     prio |-> Get(args, "prio", DEFAULT_PRIORITY),
     done |-> FALSE,
     ctime |-> now_ctime_str(clock),
     id |-> Len(tasks)]

\* the task cmd_add builds (taskmgr.py 176-186)
NewTaskDefaultLow(args, nid, clock) ==
    [name |-> args["name"],
     type |-> Get(args, "type", "NONE"),
     desc |-> Get(args, "desc", ""),
     due |-> Get(args, "due", DEFAULT_DUE),
     rep |-> Get(args, "rep", DEFAULT_REP),
     prio |-> Get(args, "prio", "LOW"),
     done |-> FALSE,
     ctime |-> now_ctime_str(clock),
     id |-> nid]

NewTask(args, nid, clock) ==
    [name |-> args["name"],
     type |-> Get(args, "type", "NONE"),
     desc |-> Get(args, "desc", ""),
     due |-> Get(args, "due", DEFAULT_DUE),
     rep |-> Get(args, "rep", DEFAULT_REP),
     prio |-> Get(args, "prio", DEFAULT_PRIORITY),
     done |-> FALSE,
     ctime |-> now_ctime_str(clock),
     id |-> nid]

\* cmd_add (taskmgr.py 147-190)
cmd_add(args) ==
    IF \E k \in DOMAIN args : k \notin {"name", "type", "desc", "due", "rep", "prio"}
    THEN Raise("TooManyArguments", tasks, next_id)
    ELSE IF "name" \notin DOMAIN args
    THEN Raise("MissingArguments", tasks, next_id)
    ELSE IF IsDigit(args["name"])
    THEN Raise("InvalidArgumentType", tasks, next_id)
    ELSE IF Get(args, "rep", DEFAULT_REP) \notin VALID_REPS
    THEN Raise("InvalidRepeat", tasks, next_id)
    ELSE IF Get(args, "prio", DEFAULT_PRIORITY) \notin VALID_PRIOS
    THEN Raise("InvalidPriority", tasks, next_id)
    ELSE IF /\ Get(args, "due", DEFAULT_DUE) # "NONE"
            /\ parse_date_str(Get(args, "due", DEFAULT_DUE)).res = "bad"
    THEN Raise("InvalidDateFormat", tasks, next_id)
    ELSE Return(Append(tasks, NewTask(args, next_id, now)), next_id + 1, "", <<>>)

(***************************************************************************)
(* Sorting and printing (taskmgr.py 335-383).                              *)
(***************************************************************************)
\* the strings sorted on, in code point order (Python compares str so)
StrOrder == <<"", "5", "A", "B", "DAILY", "MONTHLY", "NONE", "School", "WEEKLY",
              "a", "b", "none", "school", "x">>

StrRank(s) == CHOOSE i \in DOMAIN StrOrder : StrOrder[i] = s

\* datetime(...).timestamp() of a stored ctime, up to the epoch offset
CtimeTimestamp(s) == CHOOSE i \in DOMAIN CtimeStrings : CtimeStrings[i] = s

\* sort_key_func comparing name, type and desc as they are stored
sort_key_func_as_stored(sort_by, task) ==
    CASE sort_by = "name" -> <<0, StrRank(task.name)>>
      [] sort_by = "type" -> <<0, StrRank(task.type)>>
      [] sort_by = "desc" -> <<0, StrRank(task.desc)>>
      [] sort_by = "due" ->
            IF task.due = "NONE" THEN <<1, 0>>
            ELSE LET d == parse_date_str(task.due)
                 IN  IF d.res = "date" THEN <<0, d.ord>> ELSE <<1, 0>>
      [] sort_by = "rep" -> <<0, StrRank(task.rep)>>
      [] sort_by = "prio" ->
            <<0, IF task.prio \in DOMAIN PRIORITY_ORDER
                 THEN PRIORITY_ORDER[task.prio] ELSE 0>>
      [] sort_by = "done" -> <<0, IF task.done THEN 1 ELSE 0>>
      [] sort_by = "ctime" -> <<0, CtimeTimestamp(task.ctime)>>
      [] sort_by = "id" -> <<0, task.id>>

\* sort_key_func(sort_by)(task); every key is given as a pair, compared as
\* Python compares tuples
sort_key_func(sort_by, task) ==
    CASE sort_by = "name" -> <<0, StrRank(Lower(task.name))>>
      [] sort_by = "type" -> <<0, StrRank(Lower(task.type))>>
      [] sort_by = "desc" -> <<0, StrRank(Lower(task.desc))>>
      [] sort_by = "due" ->
            IF task.due = "NONE" THEN <<1, 0>>
            ELSE LET d == parse_date_str(task.due)
                 IN  IF d.res = "date" THEN <<0, d.ord>> ELSE <<1, 0>>
      [] sort_by = "rep" -> <<0, StrRank(task.rep)>>
      [] sort_by = "prio" ->
            <<0, IF task.prio \in DOMAIN PRIORITY_ORDER
                 THEN PRIORITY_ORDER[task.prio] ELSE 0>>
      [] sort_by = "done" -> <<0, IF task.done THEN 1 ELSE 0>>
      [] sort_by = "ctime" -> <<0, CtimeTimestamp(task.ctime)>>
      [] sort_by = "id" -> <<0, task.id>>

KeyLess(a, b) == a[1] < b[1] \/ (a[1] = b[1] /\ a[2] < b[2])

\* the value v, worked out once
Once(v) == CHOOSE x \in {v} : x = x

\* SortKeys(ts, sort_by)[i]: the key of the i-th task
SortKeys(ts, sort_by) == Once([i \in DOMAIN ts |-> sort_key_func(sort_by, ts[i])])

\* Positions(keys, reverse)[i]: the place of the i-th task after a stable
\* sort; with reverse the keys descend and equal keys keep their order
Positions(keys, reverse) ==
    LET before(j, i) ==
            \/ IF reverse THEN KeyLess(keys[i], keys[j]) ELSE KeyLess(keys[j], keys[i])
            \/ keys[j] = keys[i] /\ j < i
    IN  Once([i \in DOMAIN keys |-> Cardinality({j \in DOMAIN keys : before(j, i)}) + 1])

\* the tasks put at their places
Arranged(ts, pos) == Once([p \in DOMAIN ts |-> ts[CHOOSE i \in DOMAIN ts : pos[i] = p]])

\* the ascending sort, reversed as a whole for reverse
SortedThenReversed(ts, sort_by, reverse) ==
    IF reverse
    THEN Arranged(ts, Once([i \in DOMAIN ts |->
                                Len(ts) + 1 - Positions(SortKeys(ts, sort_by), FALSE)[i]]))
    ELSE Arranged(ts, Positions(SortKeys(ts, sort_by), FALSE))

\* sorted(ts, key=sort_key_func(sort_by), reverse=reverse): a stable sort;
\* with reverse the keys descend and equal keys keep their original order
Sorted(ts, sort_by, reverse) == Arranged(ts, Positions(SortKeys(ts, sort_by), reverse))

\* print_header_and_tasks: the rows in printed order
print_header_and_tasks(ts, sort_by, direction) ==
    Sorted(ts, sort_by, direction = "desc")

\* validate_sort_args (taskmgr.py 125-132)
validate_sort_args(args) ==
    LET sort_by == Get(args, "sort_by", "name")
        direction == Get(args, "direction", "asc")
    IN  IF direction \notin VALID_DIRECTION
        THEN [err |-> "InvalidArgument", sort_by |-> sort_by, direction |-> direction]
        ELSE IF sort_by \notin PROPERTIES
        THEN [err |-> "InvalidArgument", sort_by |-> sort_by, direction |-> direction]
        ELSE [err |-> "", sort_by |-> sort_by, direction |-> direction]

(***************************************************************************)
(* The other command handlers.                                             *)
(***************************************************************************)
\* cmd_help (taskmgr.py 113-123)
cmd_help(args) == Return(tasks, next_id, "usage", <<>>)

\* cmd_print (taskmgr.py 134-145)
cmd_print(args) ==
    IF \E k \in DOMAIN args : k \notin {"sort_by", "direction"}
    THEN Raise("TooManyArguments", tasks, next_id)
    ELSE LET s == validate_sort_args(args)
         IN  IF s.err # "" THEN Raise(s.err, tasks, next_id)
             ELSE Return(tasks, next_id, "table",
                         print_header_and_tasks(tasks, s.sort_by, s.direction))

\* str(t.get(prop, "")) == val: the comparison without lower()
MatchesCaseSensitive(t, prop, val) == Str(prop, t[prop]) = val

\* str(t.get(prop, "")).lower() == val.lower()
Matches(t, prop, val) == Lower(Str(prop, t[prop])) = Lower(val)

\* cmd_list (taskmgr.py 192-213)
cmd_list(args) ==
    IF \E k \in DOMAIN args : k \notin {"property", "val", "sort_by", "direction"}
    THEN Raise("TooManyArguments", tasks, next_id)
    ELSE IF "property" \notin DOMAIN args \/ "val" \notin DOMAIN args
    THEN Raise("MissingArguments", tasks, next_id)
    ELSE IF args["property"] \notin PROPERTIES
    THEN Raise("InvalidArgument", tasks, next_id)
    ELSE LET s == validate_sort_args(args)
             filtered == SelectSeq(tasks,
                             LAMBDA t : Matches(t, args["property"], args["val"]))
         IN  IF s.err # "" THEN Raise(s.err, tasks, next_id)
             ELSE Return(tasks, next_id, "table",
                         print_header_and_tasks(filtered, s.sort_by, s.direction))

\* the id taken for a position in the store: _tasks[idv]
FindTaskByIndex(ts, idv) == IF idv + 1 \in DOMAIN ts THEN idv + 1 ELSE 0

\* next((i for i, t in enumerate(_tasks) if t["id"] == idv), None): 0 for None
FindTask(ts, idv) ==
    LET hits == {i \in DOMAIN ts : ts[i].id = idv}
    IN  IF hits = {} THEN 0 ELSE CHOOSE i \in hits : \A j \in hits : i <= j

\* ModField with each assignment moved above its validation
ModFieldWriteFirst(i, prop, new_val) ==
    IF prop = "due"
    THEN IF parse_date_str(new_val).res = "bad"
         THEN Raise("InvalidDateFormat", [tasks EXCEPT ![i].due = new_val], next_id)
         ELSE Return([tasks EXCEPT ![i].due = new_val], next_id, "", <<>>)
    ELSE IF prop = "rep"
    THEN IF new_val \notin VALID_REPS
         THEN Raise("InvalidRepeat", [tasks EXCEPT ![i].rep = new_val], next_id)
         ELSE Return([tasks EXCEPT ![i].rep = new_val], next_id, "", <<>>)
    ELSE IF prop = "prio"
    THEN IF new_val \notin VALID_PRIOS
         THEN Raise("InvalidPriority", [tasks EXCEPT ![i].prio = new_val], next_id)
         ELSE Return([tasks EXCEPT ![i].prio = new_val], next_id, "", <<>>)
    ELSE IF prop = "done"
    THEN LET b == parse_bool_str(new_val)
         IN  IF b.res = "bad"
             THEN Raise("InvalidDoneStatus", tasks, next_id)
             ELSE Return([tasks EXCEPT ![i].done = b.val], next_id, "", <<>>)
    ELSE IF prop = "id"
    THEN Raise("InvalidArgument", tasks, next_id)
    ELSE IF prop = "ctime"
    THEN Raise("InvalidArgument", tasks, next_id)
    ELSE IF prop = "name" /\ IsDigit(new_val)
    THEN Raise("InvalidArgumentType", [tasks EXCEPT ![i][prop] = new_val], next_id)
    ELSE Return([tasks EXCEPT ![i][prop] = new_val], next_id, "", <<>>)

\* ModField without the ctime branch: ctime falls through to the plain fields
ModFieldCtimeEditable(i, prop, new_val) ==
    IF prop = "due"
    THEN IF parse_date_str(new_val).res = "bad"
         THEN Raise("InvalidDateFormat", tasks, next_id)
         ELSE Return([tasks EXCEPT ![i].due = new_val], next_id, "", <<>>)
    ELSE IF prop = "rep"
    THEN IF new_val \notin VALID_REPS
         THEN Raise("InvalidRepeat", tasks, next_id)
         ELSE Return([tasks EXCEPT ![i].rep = new_val], next_id, "", <<>>)
    ELSE IF prop = "prio"
    THEN IF new_val \notin VALID_PRIOS
         THEN Raise("InvalidPriority", tasks, next_id)
         ELSE Return([tasks EXCEPT ![i].prio = new_val], next_id, "", <<>>)
    ELSE IF prop = "done"
    THEN LET b == parse_bool_str(new_val)
         IN  IF b.res = "bad"
             THEN Raise("InvalidDoneStatus", tasks, next_id)
             ELSE Return([tasks EXCEPT ![i].done = b.val], next_id, "", <<>>)
    ELSE IF prop = "id"
    THEN Raise("InvalidArgument", tasks, next_id)
    ELSE IF prop = "name" /\ IsDigit(new_val)
    THEN Raise("InvalidArgumentType", tasks, next_id)
    ELSE Return([tasks EXCEPT ![i][prop] = new_val], next_id, "", <<>>)

\* the per-property part of cmd_mod (taskmgr.py 234-265) on the task at
\* index i of the store
ModField(i, prop, new_val) ==
    IF prop = "due"
    THEN IF parse_date_str(new_val).res = "bad"
         THEN Raise("InvalidDateFormat", tasks, next_id)
         ELSE Return([tasks EXCEPT ![i].due = new_val], next_id, "", <<>>)
    ELSE IF prop = "rep"
    THEN IF new_val \notin VALID_REPS
         THEN Raise("InvalidRepeat", tasks, next_id)
         ELSE Return([tasks EXCEPT ![i].rep = new_val], next_id, "", <<>>)
    ELSE IF prop = "prio"
    THEN IF new_val \notin VALID_PRIOS
         THEN Raise("InvalidPriority", tasks, next_id)
         ELSE Return([tasks EXCEPT ![i].prio = new_val], next_id, "", <<>>)
    ELSE IF prop = "done"
    THEN LET b == parse_bool_str(new_val)
         IN  IF b.res = "bad"
             THEN Raise("InvalidDoneStatus", tasks, next_id)
             ELSE Return([tasks EXCEPT ![i].done = b.val], next_id, "", <<>>)
    ELSE IF prop = "id"
    THEN Raise("InvalidArgument", tasks, next_id)
    ELSE IF prop = "ctime"
    THEN Raise("InvalidArgument", tasks, next_id)
    ELSE IF prop = "name" /\ IsDigit(new_val)
    THEN Raise("InvalidArgumentType", tasks, next_id)
    ELSE Return([tasks EXCEPT ![i][prop] = new_val], next_id, "", <<>>)

\* cmd_mod (taskmgr.py 215-267)
cmd_mod(args) ==
    IF \E k \in DOMAIN args : k \notin {"id", "property", "new_val"}
    THEN Raise("TooManyArguments", tasks, next_id)
    ELSE IF \/ "id" \notin DOMAIN args
            \/ "property" \notin DOMAIN args
            \/ "new_val" \notin DOMAIN args
    THEN Raise("MissingArguments", tasks, next_id)
    ELSE IF ~IsInt(args["id"])
    THEN Raise("InvalidArgumentType", tasks, next_id)
    ELSE IF args["property"] \notin PROPERTIES
    THEN Raise("InvalidArgument", tasks, next_id)
    ELSE IF FindTask(tasks, IntOf(args["id"])) = 0
    THEN Raise("TaskNotFound", tasks, next_id)
    ELSE ModField(FindTask(tasks, IntOf(args["id"])), args["property"], args["new_val"])

\* cmd_done taking the task out and putting the finished task at the end
cmd_done_moves_to_end(args) ==
    IF \E k \in DOMAIN args : k \notin {"id"}
    THEN Raise("TooManyArguments", tasks, next_id)
    ELSE IF "id" \notin DOMAIN args
    THEN Raise("MissingArguments", tasks, next_id)
    ELSE IF ~IsInt(args["id"])
    THEN Raise("InvalidArgumentType", tasks, next_id)
    ELSE IF FindTask(tasks, IntOf(args["id"])) = 0
    THEN Raise("TaskNotFound", tasks, next_id)
    ELSE LET i == FindTask(tasks, IntOf(args["id"]))
         IN  Return(Append([p \in 1..(Len(tasks) - 1) |->
                                IF p < i THEN tasks[p] ELSE tasks[p + 1]],
                            [tasks[i] EXCEPT !.done = TRUE]),
                    next_id, "", <<>>)

\* cmd_done flipping the flag instead of setting it
cmd_done_toggles(args) ==
    IF \E k \in DOMAIN args : k \notin {"id"}
    THEN Raise("TooManyArguments", tasks, next_id)
    ELSE IF "id" \notin DOMAIN args
    THEN Raise("MissingArguments", tasks, next_id)
    ELSE IF ~IsInt(args["id"])
    THEN Raise("InvalidArgumentType", tasks, next_id)
    ELSE IF FindTask(tasks, IntOf(args["id"])) = 0
    THEN Raise("TaskNotFound", tasks, next_id)
    ELSE LET i == FindTask(tasks, IntOf(args["id"]))
         IN  Return([tasks EXCEPT ![i].done = ~tasks[i].done], next_id, "", <<>>)

\* cmd_done with the required-key check above the allowed-key check
cmd_done_missing_first(args) ==
    IF "id" \notin DOMAIN args
    THEN Raise("MissingArguments", tasks, next_id)
    ELSE IF \E k \in DOMAIN args : k \notin {"id"}
    THEN Raise("TooManyArguments", tasks, next_id)
    ELSE IF ~IsInt(args["id"])
    THEN Raise("InvalidArgumentType", tasks, next_id)
    ELSE IF FindTask(tasks, IntOf(args["id"])) = 0
    THEN Raise("TaskNotFound", tasks, next_id)
    ELSE Return([tasks EXCEPT ![FindTask(tasks, IntOf(args["id"]))].done = TRUE],
                next_id, "", <<>>)

\* cmd_done (taskmgr.py 269-285)
cmd_done(args) ==
    IF \E k \in DOMAIN args : k \notin {"id"}
    THEN Raise("TooManyArguments", tasks, next_id)
    ELSE IF "id" \notin DOMAIN args
    THEN Raise("MissingArguments", tasks, next_id)
    ELSE IF ~IsInt(args["id"])
    THEN Raise("InvalidArgumentType", tasks, next_id)
    ELSE IF FindTask(tasks, IntOf(args["id"])) = 0
    THEN Raise("TaskNotFound", tasks, next_id)
    ELSE Return([tasks EXCEPT ![FindTask(tasks, IntOf(args["id"]))].done = TRUE],
                next_id, "", <<>>)

\* _tasks.pop(): the last task, whatever idx
PopLast(ts, idx) == SubSeq(ts, 1, Len(ts) - 1)

\* _tasks.pop(idx)
Pop(ts, idx) == [p \in 1..(Len(ts) - 1) |-> IF p < idx THEN ts[p] ELSE ts[p + 1]]

\* DeleteById handing the freed id back to the allocator
DeleteByIdRecount(args) ==
    IF "property" \in DOMAIN args \/ "val" \in DOMAIN args
    THEN Raise("TooManyArguments", tasks, next_id)
    ELSE IF ~IsInt(args["id"])
    THEN Raise("InvalidArgumentType", tasks, next_id)
    ELSE IF FindTask(tasks, IntOf(args["id"])) = 0
    THEN Raise("TaskNotFound", tasks, next_id)
    ELSE Return(Pop(tasks, FindTask(tasks, IntOf(args["id"]))), Len(tasks) - 1, "", <<>>)

\* the delete-by-id part of cmd_delete (taskmgr.py 301-315)
DeleteById(args) ==
    IF "property" \in DOMAIN args \/ "val" \in DOMAIN args
    THEN Raise("TooManyArguments", tasks, next_id)
    ELSE IF ~IsInt(args["id"])
    THEN Raise("InvalidArgumentType", tasks, next_id)
    ELSE IF FindTask(tasks, IntOf(args["id"])) = 0
    THEN Raise("TaskNotFound", tasks, next_id)
    ELSE Return(Pop(tasks, FindTask(tasks, IntOf(args["id"]))), next_id, "", <<>>)

\* the batch part of cmd_delete (taskmgr.py 316-332)
DeleteBatch(args) ==
    IF "property" \notin DOMAIN args \/ "val" \notin DOMAIN args
    THEN Raise("MissingArguments", tasks, next_id)
    ELSE IF args["property"] \notin PROPERTIES
    THEN Raise("InvalidArgument", tasks, next_id)
    ELSE LET to_delete == SelectSeq(tasks,
                              LAMBDA t : Matches(t, args["property"], args["val"]))
             remaining == SelectSeq(tasks,
                              LAMBDA t : ~\E j \in DOMAIN to_delete : to_delete[j] = t)
         IN  IF to_delete = <<>>
             THEN Raise("TaskNotFound", tasks, next_id)
             ELSE Return(remaining, next_id, "", <<>>)

\* cmd_delete (taskmgr.py 287-332)
cmd_delete(args) ==
    IF \E k \in DOMAIN args : k \notin {"id", "property", "val"}
    THEN Raise("TooManyArguments", tasks, next_id)
    ELSE IF "id" \in DOMAIN args
    THEN DeleteById(args)
    ELSE DeleteBatch(args)

(***************************************************************************)
(* Top-level orchestration (taskmgr.py 386-437).                           *)
(***************************************************************************)
\* `not line`: the test without strip()
IsBlankNoStrip(l) == l.text = "blank" /\ l.len = 0

\* not line.strip()
IsBlank(l) == l.text = "blank"

\* len(line) >= 1024
TooLongOffByOne(l) == l.len >= MaxLineLen

\* len(line) > 1024
TooLong(l) == l.len > MaxLineLen

\* line.strip().startswith("#")
IsComment(l) == l.text = "comment"

\* the handler the command word selects, run on args
Dispatch(cmd, args) ==
    IF cmd = "help"
    THEN IF DOMAIN args # {}
         THEN Raise("TooManyArguments", tasks, next_id)
         ELSE cmd_help(args)
    ELSE IF cmd = "print" THEN cmd_print(args)
    ELSE IF cmd = "add" THEN cmd_add(args)
    ELSE IF cmd = "list" THEN cmd_list(args)
    ELSE IF cmd = "mod" THEN cmd_mod(args)
    ELSE IF cmd = "done" THEN cmd_done(args)
    ELSE IF cmd = "delete" THEN cmd_delete(args)
    ELSE Raise("InvalidArgument", tasks, next_id)

\* an exception that leaves process_line (the caller sees it)
Raised(kind) ==
    [status |-> "error", kind |-> kind, raised |-> TRUE, shown |-> "",
     rows |-> <<>>, tasks |-> tasks, next_id |-> next_id]

\* a return without output
Ignored ==
    [status |-> "ignored", kind |-> "", raised |-> FALSE, shown |-> "",
     rows |-> <<>>, tasks |-> tasks, next_id |-> next_id]

\* process_line: status "ignored" (nothing printed), "success"
\* (Command success: <line>, then `shown`) or "error" (Error <kind>: <line>
\* printed, or <kind> raised to the caller)
process_line(l) ==
    IF IsBlank(l) THEN Ignored
    ELSE IF TooLong(l) THEN Raised("TooLongLine")
    ELSE IF IsComment(l) THEN Ignored
    ELSE IF l.text # "cmd" THEN Raised("InvalidArgument")
    ELSE LET tk == IF l.toks = <<>> THEN [err |-> "", args |-> <<>>]
                   ELSE tokenize_args_segment(l.toks)
         IN  IF tk.err # "" THEN Raised(tk.err)
             ELSE LET r == Dispatch(l.cmd, tk.args)
                  IN  [status |-> IF r.err = "" THEN "success" ELSE "error",
                       kind |-> r.err, raised |-> FALSE, shown |-> r.shown,
                       rows |-> r.rows, tasks |-> r.tasks, next_id |-> r.next_id]

(***************************************************************************)
(* The state machine.                                                      *)
(***************************************************************************)
NoOut == [status |-> "none", kind |-> "", raised |-> FALSE, shown |-> "", rows |-> <<>>]

Init ==
    /\ tasks = <<>>
    /\ next_id = 0
    /\ now = 0
    /\ line = NoLine
    /\ out = NoOut
    /\ old = [tasks |-> <<>>, next_id |-> 0]
    /\ adds = 0
    /\ file = <<>>
    /\ nread = 0
    /\ stdout = <<>>

\* the effect of one call of process_line on the store, and its record
Call(l) ==
    /\ \E r \in {process_line(l)} :
           /\ tasks' = r.tasks
           /\ next_id' = r.next_id
           /\ out' = [status |-> r.status, kind |-> r.kind, raised |-> r.raised,
                      shown |-> r.shown, rows |-> r.rows]
           /\ adds' = IF r.status = "success" /\ l.cmd = "add" THEN adds + 1 ELSE adds
    /\ line' = l
    /\ old' = [tasks |-> tasks, next_id |-> next_id]
    /\ UNCHANGED now

\* one call of process_line; add lines are fed while ids are below MaxId
ProcessLine(l) ==
    /\ (l.text = "cmd" /\ l.cmd = "add") => next_id < MaxId
    /\ Call(l)
    /\ UNCHANGED <<file, nread, stdout>>

\* clear_state (taskmgr.py 50-55)
ClearState ==
    /\ tasks' = <<>>
    /\ next_id' = 0
    /\ line' = NoLine
    /\ out' = NoOut
    /\ old' = [tasks |-> <<>>, next_id |-> 0]
    /\ adds' = 0
    /\ UNCHANGED <<now, file, nread, stdout>>

\* a second passes
Tick ==
    /\ now < MaxClock
    /\ now' = now + 1
    /\ UNCHANGED <<tasks, next_id, line, out, old, adds, file, nread, stdout>>

(***************************************************************************)
(* Lines fed to the dispatcher: every command, well-formed and not.        *)
(***************************************************************************)
Blank(n) == [text |-> "blank", cmd |-> "", toks |-> <<>>, len |-> n]
Comment(n) == [text |-> "comment", cmd |-> "", toks |-> <<>>, len |-> n]
NoWord == [text |-> "noword", cmd |-> "", toks |-> <<>>, len |-> 2]

Lines ==
    { Blank(0), Blank(3), Blank(MaxLineLen), Blank(MaxLineLen + 1),
      Comment(9), Comment(MaxLineLen), Comment(MaxLineLen + 1), NoWord,
      Cmd("help", <<>>), Cmd("help", <<Pair("x", "1")>>), Cmd("help", <<Junk>>),
      Cmd("print", <<>>),
      Cmd("print", <<Pair("sort_by", "due"), Pair("direction", "desc")>>),
      Cmd("print", <<Pair("bogus", "1"), Pair("direction", "up")>>),
      Cmd("print", <<Pair("direction", "up")>>),
      Cmd("print", <<Pair("sort_by", "bogus")>>),
      Cmd("add", <<Pair("name", "a")>>),
      Padded(Cmd("add", <<Pair("name", "a")>>), MaxLineLen),
      Padded(Cmd("add", <<Pair("name", "a")>>), MaxLineLen + 1),
      Padded(Cmd("add", <<Pair("name", "a"), Junk>>), MaxLineLen + 1),
      Cmd("add", <<Pair("name", "a"), Junk>>),
      Cmd("add", <<Junk, Pair("name", "a")>>),
      Cmd("add", <<Pair("name", "5")>>),
      Cmd("add", <<>>),
      Cmd("add", <<Pair("bogus", "1")>>),
      Cmd("add", <<Pair("name", "5"), Pair("bogus", "1")>>),
      Cmd("add", <<Pair("prio", "URGENT")>>),
      Cmd("add", <<Pair("name", "a"), Pair("rep", "YEARLY")>>),
      Cmd("add", <<Pair("name", "a"), Pair("prio", "URGENT")>>),
      Cmd("add", <<Pair("name", "a"), Pair("due", "31-02-2025")>>),
      Cmd("list", <<Pair("property", "name"), Pair("val", "A")>>),
      Cmd("list", <<Pair("property", "bogus"), Pair("val", "a")>>),
      Cmd("list", <<Pair("property", "bogus")>>),
      Cmd("list", <<Pair("bogus", "1")>>),
      Cmd("list", <<Pair("property", "name"), Pair("val", "a"), Pair("direction", "up")>>),
      Cmd("mod", <<Pair("id", "0"), Pair("property", "desc"), Pair("new_val", "x")>>),
      Cmd("mod", <<Pair("id", "0"), Junk, Pair("property", "desc"),
                   Pair("new_val", "x")>>),
      Cmd("mod", <<Pair("id", "0"), Pair("property", "prio"), Pair("new_val", "URGENT")>>),
      Cmd("mod", <<Pair("id", "0"), Pair("property", "rep"), Pair("new_val", "YEARLY")>>),
      Cmd("mod", <<Pair("id", "0"), Pair("property", "due"), Pair("new_val", "2025/10/31")>>),
      Cmd("mod", <<Pair("id", "0"), Pair("property", "done"), Pair("new_val", "yes")>>),
      Cmd("mod", <<Pair("id", "0"), Pair("property", "name"), Pair("new_val", "5")>>),
      Cmd("mod", <<Pair("id", "0"), Pair("property", "id"), Pair("new_val", "1")>>),
      Cmd("mod", <<Pair("id", "x"), Pair("property", "bogus"), Pair("new_val", "1")>>),
      Cmd("mod", <<Pair("id", "0"), Pair("property", "bogus"), Pair("new_val", "1")>>),
      Cmd("mod", <<Pair("id", "7"), Pair("property", "desc"), Pair("new_val", "x")>>),
      Cmd("mod", <<Pair("id", "x"), Pair("property", "desc")>>),
      Cmd("mod", <<Pair("id", "0"), Pair("property", "desc"), Pair("new_val", "x"),
                   Pair("val", "1")>>),
      Cmd("mod", <<Pair("val", "1")>>),
      Cmd("done", <<Pair("id", "0")>>),
      Cmd("done", <<Pair("id", "7")>>),
      Cmd("done", <<Pair("id", "x")>>),
      Cmd("done", <<>>),
      Cmd("done", <<Pair("id", "x"), Pair("x", "1")>>),
      Cmd("done", <<Pair("x", "1")>>),
      Cmd("delete", <<Pair("id", "0")>>),
      Cmd("delete", <<Pair("id", "7")>>),
      Cmd("delete", <<Pair("id", "x")>>),
      Cmd("delete", <<Pair("id", "0"), Pair("val", "a")>>),
      Cmd("delete", <<Pair("property", "desc"), Pair("val", "X")>>),
      Cmd("delete", <<Pair("property", "bogus"), Pair("val", "a")>>),
      Cmd("delete", <<Pair("property", "bogus")>>),
      Cmd("delete", <<>>),
      Cmd("delete", <<Pair("bogus", "1")>>),
      Cmd("frob", <<>>),
      Cmd("frob", <<Pair("name", "a")>>) }

Next ==
    \/ \E l \in Lines : ProcessLine(l)
    \/ ClearState
    \/ Tick

Spec == Init /\ [][Next]_vars

(***************************************************************************)
(* Lines that fill and empty the store: adds and deletes.                  *)
(***************************************************************************)
StoreLines ==
    { Cmd("add", <<Pair("name", "a")>>),
      Cmd("add", <<Pair("name", "A"), Pair("type", "School")>>),
      Cmd("add", <<Pair("name", "b"), Pair("type", "school")>>),
      Cmd("add", <<Pair("name", "5")>>),
      Cmd("add", <<Pair("type", "School")>>),
      Cmd("done", <<Pair("id", "1")>>),
      Cmd("print", <<>>),
      Cmd("delete", <<Pair("id", "0")>>),
      Cmd("delete", <<Pair("id", "1")>>),
      Cmd("delete", <<Pair("id", "01")>>),
      Cmd("delete", <<Pair("id", "2")>>),
      Cmd("delete", <<Pair("id", "7")>>),
      Cmd("delete", <<Pair("id", "-1")>>),
      Cmd("delete", <<Pair("id", "x")>>),
      Cmd("delete", <<Pair("property", "type"), Pair("val", "SCHOOL")>>),
      Cmd("delete", <<Pair("property", "type"), Pair("val", "none")>>),
      Cmd("delete", <<Pair("property", "type"), Pair("val", "x")>>),
      Cmd("delete", <<Pair("property", "name"), Pair("val", "A")>>),
      Cmd("delete", <<Pair("property", "id"), Pair("val", "1")>>),
      Cmd("delete", <<Pair("property", "id"), Pair("val", "01")>>),
      Cmd("delete", <<Pair("property", "done"), Pair("val", "FALSE")>>),
      Cmd("delete", <<Pair("property", "prio"), Pair("val", "medium")>>),
      Cmd("delete", <<Pair("property", "bogus"), Pair("val", "a")>>) }

NextStore ==
    \/ \E l \in StoreLines : ProcessLine(l)
    \/ ClearState

SpecStore == Init /\ [][NextStore]_vars

(***************************************************************************)
(* Lines that edit tasks, with the clock running.                          *)
(***************************************************************************)
Mod(id, prop, new_val) ==
    Cmd("mod", <<Pair("id", id), Pair("property", prop), Pair("new_val", new_val)>>)

ModLines ==
    { Cmd("add", <<Pair("name", "a")>>),
      Cmd("add", <<Pair("name", "")>>),
      Cmd("add", <<Pair("name", "5")>>),
      Cmd("done", <<Pair("id", "0")>>),
      Cmd("delete", <<Pair("id", "0")>>),
      Mod("0", "id", "1"), Mod("1", "id", "0"), Mod("7", "id", "1"),
      Mod("0", "ctime", "1-11-2026 09:00:01"), Mod("01", "ctime", ""),
      Mod("-1", "ctime", "x"),
      Mod("0", "name", "b"), Mod("0", "name", "5"), Mod("1", "name", ""),
      Mod("0", "due", "31-02-2025"), Mod("1", "prio", "high"),
      Mod("1", "rep", "YEARLY"), Mod("0", "done", "False"), Mod("0", "done", "yes"),
      Mod("x", "name", "b"), Mod("0", "bogus", "b") }

NextMod ==
    \/ \E l \in ModLines : ProcessLine(l)
    \/ Tick

SpecMod == Init /\ [][NextMod]_vars

(***************************************************************************)
(* Lines that print: tasks with and without due dates, every direction.    *)
(***************************************************************************)
SortLines ==
    { Cmd("add", <<Pair("name", "a")>>),
      Cmd("add", <<Pair("name", "b"), Pair("due", "05-10-2025")>>),
      Cmd("add", <<Pair("name", "A"), Pair("due", "1-1-2025")>>),
      Mod("0", "due", "5-10-2025"), Mod("1", "due", "NONE"),
      Cmd("delete", <<Pair("id", "0")>>),
      Cmd("print", <<>>),
      Cmd("print", <<Pair("sort_by", "due")>>),
      Cmd("print", <<Pair("sort_by", "due"), Pair("direction", "asc")>>),
      Cmd("print", <<Pair("sort_by", "due"), Pair("direction", "desc")>>),
      Cmd("print", <<Pair("sort_by", "due"), Pair("direction", "DESC")>>),
      Cmd("list", <<Pair("property", "rep"), Pair("val", "none"), Pair("sort_by", "due")>>),
      Cmd("list", <<Pair("property", "rep"), Pair("val", "none"), Pair("sort_by", "due"),
                    Pair("direction", "desc")>>),
      Cmd("list", <<Pair("property", "name"), Pair("val", "A"), Pair("sort_by", "due"),
                    Pair("direction", "asc")>>) }

NextSort ==
    \/ \E l \in SortLines : ProcessLine(l)
    \/ Tick

SpecSort == Init /\ [][NextSort]_vars

(***************************************************************************)
(* Lines that create tasks: every optional field given and omitted.        *)
(***************************************************************************)
AddLines ==
    { Cmd("add", <<Pair("name", "a")>>),
      Cmd("add", <<Pair("name", "b"), Pair("type", "School"), Pair("desc", "x"),
                   Pair("due", "05-10-2025"), Pair("rep", "DAILY"), Pair("prio", "HIGH")>>),
      Cmd("add", <<Pair("name", "A"), Pair("prio", "LOW")>>),
      Cmd("add", <<Pair("name", "5"), Pair("name", "a"), Pair("due", "NONE")>>),
      Cmd("add", <<Pair("name", "5")>>),
      Cmd("add", <<Pair("name", "01"), Pair("type", "School")>>),
      Cmd("add", <<Pair("name", "5"), Pair("rep", "YEARLY")>>),
      Cmd("add", <<Pair("name", "5"), Pair("due", "31-02-2025")>>),
      Cmd("add", <<Pair("name", "5"), Pair("bogus", "1")>>),
      Cmd("add", <<Pair("name", "a"), Pair("name", "5")>>),
      Cmd("add", <<Pair("name", "a"), Pair("rep", "YEARLY")>>),
      Cmd("add", <<Pair("name", "a"), Pair("prio", "low")>>),
      Cmd("add", <<Pair("name", "a"), Pair("due", "31-02-2025")>>),
      Cmd("done", <<Pair("id", "0")>>),
      Cmd("delete", <<Pair("id", "0")>>) }

NextAdd ==
    \/ \E l \in AddLines : ProcessLine(l)
    \/ Tick

SpecAdd == Init /\ [][NextAdd]_vars

(***************************************************************************)
(* Lines that show the store: every sort field in both directions, over    *)
(* tasks that differ in case, priority, dates and completion.              *)
(***************************************************************************)
List(prop, val, more) == Cmd("list", <<Pair("property", prop), Pair("val", val)>> \o more)

ViewLines ==
    { Cmd("add", <<Pair("name", "B"), Pair("type", "school"), Pair("desc", "x"),
                   Pair("due", "05-10-2025"), Pair("rep", "DAILY"), Pair("prio", "HIGH")>>),
      Cmd("add", <<Pair("name", "a"), Pair("type", "School")>>),
      Mod("0", "prio", "LOW"),
      Cmd("done", <<Pair("id", "1")>>),
      Cmd("print", <<>>),
      Cmd("print", <<Pair("sort_by", "name")>>),
      Cmd("print", <<Pair("sort_by", "name"), Pair("direction", "desc")>>),
      Cmd("print", <<Pair("sort_by", "type")>>),
      Cmd("print", <<Pair("sort_by", "type"), Pair("direction", "desc")>>),
      Cmd("print", <<Pair("sort_by", "desc")>>),
      Cmd("print", <<Pair("sort_by", "desc"), Pair("direction", "desc")>>),
      Cmd("print", <<Pair("sort_by", "due")>>),
      Cmd("print", <<Pair("sort_by", "due"), Pair("direction", "desc")>>),
      Cmd("print", <<Pair("sort_by", "rep")>>),
      Cmd("print", <<Pair("sort_by", "rep"), Pair("direction", "desc")>>),
      Cmd("print", <<Pair("sort_by", "prio")>>),
      Cmd("print", <<Pair("sort_by", "prio"), Pair("direction", "desc")>>),
      Cmd("print", <<Pair("sort_by", "done")>>),
      Cmd("print", <<Pair("sort_by", "done"), Pair("direction", "desc")>>),
      Cmd("print", <<Pair("sort_by", "ctime")>>),
      Cmd("print", <<Pair("sort_by", "ctime"), Pair("direction", "desc")>>),
      Cmd("print", <<Pair("sort_by", "id")>>),
      Cmd("print", <<Pair("sort_by", "id"), Pair("direction", "desc")>>),
      List("name", "A", <<>>),
      List("name", "x", <<>>),
      List("type", "SCHOOL", <<Pair("sort_by", "id"), Pair("direction", "desc")>>),
      List("type", "school", <<Pair("sort_by", "name")>>),
      List("done", "false", <<Pair("sort_by", "prio")>>),
      List("done", "False", <<Pair("sort_by", "prio"), Pair("direction", "desc")>>),
      List("id", "1", <<Pair("sort_by", "ctime")>>),
      List("rep", "none", <<Pair("sort_by", "done"), Pair("direction", "desc")>>) }

NextView ==
    \/ \E l \in ViewLines : ProcessLine(l)
    \/ Tick

SpecView == Init /\ [][NextView]_vars

(***************************************************************************)
(* Lines that set fields, at creation and by mod: values the code accepts  *)
(* and values it refuses.                                                  *)
(***************************************************************************)
FieldLines ==
    { Cmd("add", <<Pair("name", "a")>>),
      Cmd("add", <<Pair("name", "b"), Pair("due", "29-02-2024"), Pair("rep", "WEEKLY"),
                   Pair("prio", "LOW")>>),
      Cmd("add", <<Pair("name", "a"), Pair("due", "31-02-2025")>>),
      Cmd("add", <<Pair("name", "a"), Pair("rep", "weekly")>>),
      Cmd("add", <<Pair("name", "a"), Pair("prio", "URGENT")>>),
      Cmd("delete", <<Pair("id", "0")>>),
      Cmd("done", <<Pair("id", "1")>>),
      Mod("0", "due", "NONE"), Mod("0", "due", "5-10-2025"), Mod("0", "due", "31-02-2025"),
      Mod("0", "due", "1-13-2025"), Mod("0", "due", "none"), Mod("0", "due", ""),
      Mod("0", "rep", "MONTHLY"), Mod("0", "rep", "YEARLY"), Mod("0", "rep", "weekly"),
      Mod("0", "prio", "HIGH"), Mod("0", "prio", "URGENT"), Mod("0", "prio", "low"),
      Mod("0", "done", "True"), Mod("0", "done", "false"), Mod("0", "done", "yes"),
      Mod("1", "done", "true"), Mod("1", "desc", "x"), Mod("2", "name", "A"),
      Mod("7", "prio", "HIGH"), Mod("-1", "desc", "x"), Mod("1", "prio", "URGENT") }

NextFields == \E l \in FieldLines : ProcessLine(l)

SpecFields == Init /\ [][NextFields]_vars

(***************************************************************************)
(* run_from_file: the driver reads the file line by line, hands each line  *)
(* to process_line and prints the error of a call that raised.  A printed  *)
(* line is a record: what it is (t), the error kind and the echoed line.   *)
(***************************************************************************)
MaxFileLen == 3

StatusLine(t, kind, l) == [t |-> t, kind |-> kind, echo |-> l]

BodyLine(t) == [t |-> t, kind |-> "", echo |-> NoLine]

\* the usage text of help: one line per command
UsageLines == [i \in 1..7 |-> BodyLine("usage")]

\* the header, then every row followed by an empty line
TableLines(rows) ==
    <<BodyLine("header")>> \o
    [i \in 1..(2 * Len(rows)) |-> IF i % 2 = 1 THEN BodyLine("row") ELSE BodyLine("blank")]

\* what a call of process_line prints itself: the status line first
Printed(r, l) ==
    IF r.raised \/ r.status = "ignored" THEN <<>>
    ELSE IF r.status = "error" THEN <<StatusLine("error", r.kind, l)>>
    ELSE <<StatusLine("success", "", l)>> \o
         (IF r.shown = "usage" THEN UsageLines
          ELSE IF r.shown = "table" THEN TableLines(r.rows)
          ELSE <<>>)

DriverSwallows(r, l) == <<>>

\* what the driver prints for a call that raised
DriverPrints(r, l) ==
    IF r.raised THEN <<StatusLine("error", r.kind, l)>> ELSE <<>>

\* the printed lines, tagged with the number of the file line they answer
Tagged(ls, n) == [i \in 1..Len(ls) |-> [src |-> n, t |-> ls[i].t, kind |-> ls[i].kind,
                                        echo |-> ls[i].echo]]

\* one turn of the loop over the file
RunStep ==
    /\ nread < Len(file)
    /\ Call(file[nread + 1])
    /\ \E r \in {process_line(file[nread + 1])} :
           stdout' = stdout \o Tagged(Printed(r, file[nread + 1]) \o
                                      DriverPrints(r, file[nread + 1]), nread + 1)
    /\ nread' = nread + 1
    /\ UNCHANGED file

DriverLines ==
    { Blank(3), Comment(9), NoWord,
      Cmd("help", <<>>),
      Cmd("print", <<>>),
      Cmd("add", <<Pair("name", "a")>>),
      Cmd("add", <<Pair("name", "a"), Junk>>),
      Padded(Cmd("add", <<Pair("name", "a")>>), MaxLineLen + 1),
      Cmd("done", <<Pair("id", "7")>>) }

Files == [1..MaxFileLen -> DriverLines]

InitDriver ==
    /\ tasks = <<>>
    /\ next_id = 0
    /\ now = 0
    /\ line = NoLine
    /\ out = NoOut
    /\ old = [tasks |-> <<>>, next_id |-> 0]
    /\ adds = 0
    /\ file \in Files
    /\ nread = 0
    /\ stdout = <<>>

NextDriver == RunStep

\* the loop has no way to stop early: a turn that can be taken is taken
SpecDriver == InitDriver /\ [][NextDriver]_vars /\ WF_vars(NextDriver)

(***************************************************************************)
(* Properties.  `line`, `out` and `old` describe the last call of          *)
(* process_line; they say nothing before the first call.                   *)
(***************************************************************************)
Processed == out.status # "none"

StoreUnchanged == tasks = old.tasks /\ next_id = old.next_id

\* the keys of the key=value tokens of a line
KeysOf(l) == {l.toks[i].k : i \in {j \in DOMAIN l.toks : ~l.toks[j].junk}}

\* no text is left after the last key=value token
NoTrailingText(l) ==
    \A i \in DOMAIN l.toks : l.toks[i].junk => \E j \in DOMAIN l.toks : j > i /\ ~l.toks[j].junk

\* a line that reaches a command handler
Handled(l) ==
    /\ l.text = "cmd"
    /\ l.len <= 1024
    /\ NoTrailingText(l)
    /\ l.cmd \in {"help", "print", "add", "list", "mod", "done", "delete"}

\* the value a handled line gives for key k
ArgOf(l, k) == ArgsOf(l.toks)[k]

\* ts without the tasks at the indices in M, the others in their order
RECURSIVE Without(_, _)
Without(ts, M) ==
    IF ts = <<>> THEN <<>>
    ELSE LET n == Len(ts)
             front == Without(SubSeq(ts, 1, n - 1), M)
         IN  IF n \in M THEN front ELSE Append(front, ts[n])

\* C1: after a clear, the k-th successful add (from 0) creates, at the end
\* of the store, a task with id k; no stored id reaches the number of
\* successful adds, so failures consume no id and deletions free none.
C1_AddIdsInCallOrder ==
    /\ \A i \in DOMAIN tasks : tasks[i].id < adds
    /\ (out.status = "success" /\ line.cmd = "add") =>
          /\ Len(tasks) = Len(old.tasks) + 1
          /\ tasks[Len(tasks)].id = adds - 1

\* the third successful add lands in a store emptied by deletes: id 2
C1_Witness ==
    /\ out.status = "success" /\ line.cmd = "add"
    /\ adds = 3 /\ old.tasks = <<>> /\ tasks[1].id = 2

\* C2: a line that ends in an Error outcome leaves the tasks, their fields,
\* their order and the id counter exactly as it found them.
C2_NoPartialMutation == out.status = "error" => StoreUnchanged

\* a mod of an existing task refused for its value, on a non-empty store
C2_Witness ==
    /\ out.status = "error" /\ out.kind = "InvalidPriority"
    /\ line.cmd = "mod" /\ tasks # <<>>

\* C5 as claimed: every line longer than 1024 characters fails with
\* TooLongLine and changes nothing, and no shorter line fails with it.
C5_EveryLongLineFails ==
    Processed =>
        /\ line.len > 1024 =>
              out.status = "error" /\ out.kind = "TooLongLine" /\ StoreUnchanged
        /\ line.len <= 1024 => out.kind # "TooLongLine"

\* C5 amended: every line longer than 1024 characters that is not blank
\* fails with TooLongLine, whatever follows the command word, and changes
\* nothing; a blank line longer than 1024 characters is ignored; no line of
\* 1024 characters or fewer fails with TooLongLine.
C5_TooLongLine ==
    Processed =>
        /\ (line.len > 1024 /\ line.text # "blank") =>
              out.status = "error" /\ out.kind = "TooLongLine" /\ StoreUnchanged
        /\ (line.len > 1024 /\ line.text = "blank") =>
              out.status = "ignored" /\ StoreUnchanged
        /\ line.len <= 1024 => out.kind # "TooLongLine"

\* a 1025-character add with stray text fails with TooLongLine, not with
\* the tokenizer's InvalidArgument, on a non-empty store
C5_Witness ==
    /\ line.len = 1025 /\ line.cmd = "add" /\ ~NoTrailingText(line)
    /\ out.kind = "TooLongLine" /\ tasks # <<>>

\* C6 as claimed: every blank line and every line whose first non-blank
\* character is # is ignored: no output, no error, no change.
C6_EveryCommentIgnored ==
    (Processed /\ line.text \in {"blank", "comment"}) =>
        out.status = "ignored" /\ StoreUnchanged

\* C6 amended: every blank line, and every line of at most 1024 characters
\* whose first non-blank character is #, is ignored: no output, no error,
\* no change of the store or the id counter; a # line longer than 1024
\* characters fails with TooLongLine.
C6_BlankAndCommentIgnored ==
    Processed =>
        /\ (line.text = "blank" \/ (line.text = "comment" /\ line.len <= 1024)) =>
              /\ out.status = "ignored" /\ out.kind = ""
              /\ out.shown = "" /\ out.rows = <<>>
              /\ StoreUnchanged
        /\ (line.text = "comment" /\ line.len > 1024) =>
              out.status = "error" /\ out.kind = "TooLongLine"

\* a whitespace-only line ignored on a non-empty store
C6_Witness ==
    /\ line.text = "blank" /\ line.len > 0
    /\ out.status = "ignored" /\ tasks # <<>>

\* the keys a command accepts
AllowedKeys(cmd) ==
    CASE cmd = "help" -> {}
      [] cmd = "print" -> {"sort_by", "direction"}
      [] cmd = "add" -> {"name", "type", "desc", "due", "rep", "prio"}
      [] cmd = "list" -> {"property", "val", "sort_by", "direction"}
      [] cmd = "mod" -> {"id", "property", "new_val"}
      [] cmd = "done" -> {"id"}
      [] cmd = "delete" -> {"id", "property", "val"}

\* a key the command requires is not among keys (delete requires id, or
\* property and val)
MissingRequired(cmd, keys) ==
    CASE cmd = "add" -> "name" \notin keys
      [] cmd = "list" -> ~({"property", "val"} \subseteq keys)
      [] cmd = "mod" -> ~({"id", "property", "new_val"} \subseteq keys)
      [] cmd = "done" -> "id" \notin keys
      [] cmd = "delete" -> "id" \notin keys /\ ~({"property", "val"} \subseteq keys)
      [] OTHER -> FALSE

PerFieldKinds ==
    {"InvalidArgumentType", "InvalidArgument", "InvalidRepeat", "InvalidPriority",
     "InvalidDateFormat", "TaskNotFound"}

\* C10: for a line that reaches a handler, a key outside the command's
\* allowed set gives TooManyArguments whatever else is wrong; otherwise a
\* missing required key gives MissingArguments whatever else is wrong; a
\* per-field error is given only when neither is the case.
C10_ErrorPrecedence ==
    (Processed /\ Handled(line)) =>
        LET keys == KeysOf(line)
            extra == ~(keys \subseteq AllowedKeys(line.cmd))
            missing == MissingRequired(line.cmd, keys)
        IN  /\ extra => (out.status = "error" /\ out.kind = "TooManyArguments")
            /\ (~extra /\ missing) =>
                  (out.status = "error" /\ out.kind = "MissingArguments")
            /\ out.kind \in PerFieldKinds => (~extra /\ ~missing)

\* a done with a foreign key and no id: both rules apply, the first wins
C10_Witness ==
    /\ Handled(line) /\ line.cmd = "done"
    /\ KeysOf(line) = {"x"}
    /\ out.kind = "TooManyArguments"

\* a mod with exactly id, property and new_val, an integer id and a
\* property among props
IsMod(l, props) ==
    /\ Handled(l) /\ l.cmd = "mod"
    /\ KeysOf(l) = {"id", "property", "new_val"}
    /\ IsInt(ArgOf(l, "id"))
    /\ ArgOf(l, "property") \in props

IdsAndCtimesUnchanged ==
    /\ Len(tasks) = Len(old.tasks)
    /\ \A i \in DOMAIN tasks :
          tasks[i].id = old.tasks[i].id /\ tasks[i].ctime = old.tasks[i].ctime

\* C3 as claimed: a mod of property id or ctime, for every integer id,
\* fails with InvalidArgument and changes no id and no ctime.
C3_AlwaysInvalidArgument ==
    (Processed /\ IsMod(line, {"id", "ctime"})) =>
        /\ out.status = "error" /\ out.kind = "InvalidArgument"
        /\ IdsAndCtimesUnchanged

\* C3 amended: a mod of property id or ctime always fails and changes no
\* id and no ctime: with InvalidArgument when a task has the given id, with
\* TaskNotFound when none has.
C3_IdAndCtimeNotEditable ==
    (Processed /\ IsMod(line, {"id", "ctime"})) =>
        /\ out.status = "error"
        /\ out.kind = (IF \E i \in DOMAIN old.tasks :
                             old.tasks[i].id = IntOf(ArgOf(line, "id"))
                       THEN "InvalidArgument" ELSE "TaskNotFound")
        /\ IdsAndCtimesUnchanged

\* a mod of the ctime of an existing task, refused
C3_Witness ==
    /\ Processed /\ IsMod(line, {"ctime"})
    /\ \E i \in DOMAIN tasks : tasks[i].id = IntOf(ArgOf(line, "id"))
    /\ out.kind = "InvalidArgument"

\* a print or list that succeeded with sort_by=due
IsDueTable(l) ==
    /\ Handled(l) /\ l.cmd \in {"print", "list"}
    /\ "sort_by" \in KeysOf(l) /\ ArgOf(l, "sort_by") = "due"
    /\ out.status = "success"

\* C4: in a table sorted by due, every task whose due is NONE is printed
\* after every task with a real date, for direction asc and desc alike.
C4_NoneLastBothDirections ==
    (Processed /\ IsDueTable(line)) =>
        \A i, j \in DOMAIN out.rows :
            (out.rows[i].due = "NONE" /\ out.rows[j].due # "NONE") => j < i

\* C7: every stored task has a name that is non-empty and not all digits.
C7_NamesNonEmptyNotNumeric ==
    \A i \in DOMAIN tasks : tasks[i].name # "" /\ ~IsDigit(tasks[i].name)

\* a delete with id alone, an integer
IsDeleteById(l) ==
    /\ Handled(l) /\ l.cmd = "delete"
    /\ KeysOf(l) = {"id"}
    /\ IsInt(ArgOf(l, "id"))

\* C8: delete id=<n> removes the one task whose id is n and leaves the
\* other tasks, their fields and their order as they were; when no task has
\* id n it fails with TaskNotFound and changes nothing.
C8_DeleteById ==
    (Processed /\ IsDeleteById(line)) =>
        LET hits == {i \in DOMAIN old.tasks : old.tasks[i].id = IntOf(ArgOf(line, "id"))}
        IN  IF hits = {}
            THEN out.status = "error" /\ out.kind = "TaskNotFound" /\ StoreUnchanged
            ELSE /\ out.status = "success"
                 /\ Cardinality(hits) = 1
                 /\ tasks = Without(old.tasks, hits)
                 /\ next_id = old.next_id

\* the middle one of three tasks deleted
C8_Witness ==
    /\ Processed /\ IsDeleteById(line) /\ out.status = "success"
    /\ Len(old.tasks) = 3
    /\ tasks = <<old.tasks[1], old.tasks[3]>>

\* a delete with property and val alone, the property a recognized one
IsDeleteBatch(l) ==
    /\ Handled(l) /\ l.cmd = "delete"
    /\ KeysOf(l) = {"property", "val"}
    /\ ArgOf(l, "property") \in PROPERTIES

\* C9: delete property=<p> val=<v> removes the tasks whose value of p, as a
\* string, equals v up to letter case, and no other, keeping the order of
\* the rest; when none does it fails with TaskNotFound and removes nothing.
C9_DeleteBatch ==
    (Processed /\ IsDeleteBatch(line)) =>
        LET p == ArgOf(line, "property")
            v == ArgOf(line, "val")
            hits == {i \in DOMAIN old.tasks :
                        Lower(Str(p, old.tasks[i][p])) = Lower(v)}
        IN  IF hits = {}
            THEN out.status = "error" /\ out.kind = "TaskNotFound" /\ StoreUnchanged
            ELSE /\ out.status = "success"
                 /\ tasks = Without(old.tasks, hits)
                 /\ next_id = old.next_id

\* two of three tasks removed by a value that differs from theirs in case,
\* the one between them kept
C9_Witness ==
    /\ Processed /\ IsDeleteBatch(line) /\ out.status = "success"
    /\ Len(old.tasks) = 3 /\ tasks = <<old.tasks[2]>>
    /\ old.tasks[1].type # ArgOf(line, "val")
    /\ old.tasks[1].type # old.tasks[3].type


(***************************************************************************)
(* The file driver.                                                        *)
(***************************************************************************)
ErrorKinds ==
    {"TooManyArguments", "InvalidArgument", "InvalidArgumentType", "MissingArguments",
     "InvalidDateFormat", "InvalidRepeat", "InvalidPriority", "TaskNotFound",
     "InvalidDoneStatus", "UnknownCommand", "TooLongLine"}

\* what the run printed in answer to file line n
AnswersTo(n) == SelectSeq(stdout, LAMBDA o : o.src = n)

IsStatus(o) == o.t \in {"success", "error"}

\* every line read so far that is neither blank nor a comment was answered
\* with one status line, printed first and echoing the line
OneStatusLineEach ==
    \A n \in 1..nread :
        (~IsBlank(file[n]) /\ ~IsComment(file[n])) =>
            LET a == AnswersTo(n)
            IN  /\ Cardinality({i \in DOMAIN a : IsStatus(a[i])}) = 1
                /\ IsStatus(a[1])
                /\ a[1].echo = file[n]
                /\ a[1].t = "error" => (a[1].kind \in ErrorKinds /\ Len(a) = 1)

\* C11: through the file driver every line that is neither blank nor a
\* comment gets exactly one status line, Command success or Error <Kind>,
\* echoing the line and printed before any table or usage text; and no
\* failure stops the driver: it reads every line of the file.
C11_FileDriver == [](OneStatusLineEach) /\ <>(nread = Len(file))

\* a line that raised is followed by a line that printed success and a body
C11_Witness ==
    /\ nread = Len(file)
    /\ \E i, j \in 1..nread :
           /\ i < j
           /\ TooLong(file[i]) /\ ~IsComment(file[i])
           /\ AnswersTo(i) = <<[src |-> i, t |-> "error", kind |-> "TooLongLine",
                                echo |-> file[i]]>>
           /\ AnswersTo(j)[1].t = "success"
           /\ Len(AnswersTo(j)) > 1

(***************************************************************************)
(* add.                                                                    *)
(***************************************************************************)
\* an add that reaches cmd_add with a name
IsAdd(l) == Handled(l) /\ l.cmd = "add" /\ "name" \in KeysOf(l)

\* the value the line gives for key k, or the default of an omitted key
Supplied(l, k, default) == IF k \in KeysOf(l) THEN ArgOf(l, k) ELSE default

\* a successful add left the old store with one task appended: the values
\* of the line, the defaults of the omitted keys, done false
AddAppendsOne ==
    (IsAdd(line) /\ out.status = "success") =>
        /\ Len(tasks) = Len(old.tasks) + 1
        /\ SubSeq(tasks, 1, Len(old.tasks)) = old.tasks
        /\ LET t == tasks[Len(tasks)]
           IN  /\ t.name = ArgOf(line, "name")
               /\ t.type = Supplied(line, "type", "NONE")
               /\ t.desc = Supplied(line, "desc", "")
               /\ t.due = Supplied(line, "due", "NONE")
               /\ t.rep = Supplied(line, "rep", "NONE")
               /\ t.prio = Supplied(line, "prio", "MEDIUM")
               /\ t.done = FALSE

NumericName(l) == IsAdd(l) /\ IsDigit(ArgOf(l, "name"))

\* C12 as claimed: a successful add appends one task with the supplied
\* values and the defaults and changes no existing task, and every add with
\* a purely numeric name fails with InvalidArgumentType.
C12_NumericNameAlwaysTypeError ==
    /\ AddAppendsOne
    /\ (Processed /\ NumericName(line)) =>
           (out.status = "error" /\ out.kind = "InvalidArgumentType")

\* C12: a successful add appends one task with the supplied values and the
\* defaults and changes no existing task; an add with a purely numeric name
\* never succeeds and leaves the store alone: it fails with TooManyArguments
\* when it carries a key add does not know, else with InvalidArgumentType,
\* whatever its other values are.
C12_AddAppendsNumericNameFails ==
    /\ AddAppendsOne
    /\ (Processed /\ NumericName(line)) =>
           /\ out.status = "error"
           /\ StoreUnchanged
           /\ out.kind = IF KeysOf(line) \subseteq AllowedKeys("add")
                         THEN "InvalidArgumentType" ELSE "TooManyArguments"

\* every optional field supplied, appended behind a task already stored
C12_Witness ==
    /\ IsAdd(line) /\ out.status = "success"
    /\ KeysOf(line) = AllowedKeys("add")
    /\ Len(old.tasks) > 0
    /\ tasks[Len(tasks)].prio = "HIGH"

\* a numeric name with a bad repeat value is still a type error
C12_WitnessNumeric ==
    /\ NumericName(line) /\ "rep" \in KeysOf(line)
    /\ out.kind = "InvalidArgumentType"

(***************************************************************************)
(* list.                                                                   *)
(***************************************************************************)
\* a list with property and val, a recognized property and sort arguments
\* that validate
IsList(l) ==
    /\ Handled(l) /\ l.cmd = "list"
    /\ {"property", "val"} \subseteq KeysOf(l)
    /\ KeysOf(l) \subseteq AllowedKeys("list")
    /\ ArgOf(l, "property") \in PROPERTIES
    /\ Supplied(l, "sort_by", "name") \in PROPERTIES
    /\ Supplied(l, "direction", "asc") \in {"asc", "desc"}

\* the tasks of ts whose stringified property equals val, letter case aside
Selected(ts, prop, val) ==
    {i \in DOMAIN ts : Lower(Str(prop, ts[i][prop])) = Lower(val)}

Range(f) == {f[i] : i \in DOMAIN f}

\* the arguments of a line with the other direction
OtherDirection(l) ==
    LET args == ArgsOf(l.toks)
    IN  [k \in DOMAIN args \cup {"direction"} |->
            IF k = "direction"
            THEN (IF Supplied(l, "direction", "asc") = "asc" THEN "desc" ELSE "asc")
            ELSE args[k]]

\* C13: list prints exactly the tasks whose stringified property equals val
\* case-insensitively, each once, and the same tasks in the other direction;
\* with no match it succeeds with the header alone; a task created by
\* add name=N is among the rows of list property=name val=<N in any case>.
C13_ListSelects ==
    (Processed /\ IsList(line)) =>
        LET sel == Selected(old.tasks, ArgOf(line, "property"), ArgOf(line, "val"))
        IN  /\ out.status = "success" /\ out.shown = "table"
            /\ StoreUnchanged
            /\ Len(out.rows) = Cardinality(sel)
            /\ Range(out.rows) = {old.tasks[i] : i \in sel}
            /\ Range(cmd_list(OtherDirection(line)).rows) = Range(out.rows)
            /\ sel = {} => out.rows = <<>>
            /\ ArgOf(line, "property") = "name" =>
                   \A i \in DOMAIN tasks :
                       Lower(tasks[i].name) = Lower(ArgOf(line, "val"))
                           => tasks[i] \in Range(out.rows)

\* val=A returns the two tasks named a, not the task named B
C13_Witness ==
    /\ IsList(line) /\ ArgOf(line, "property") = "name" /\ ArgOf(line, "val") = "A"
    /\ Len(tasks) = 3 /\ Len(out.rows) = 2
    /\ out.rows[1].name = "a" /\ out.rows[2].name = "a"

\* val=SCHOOL returns the tasks of type school and of type School
C13_WitnessType ==
    /\ IsList(line) /\ ArgOf(line, "property") = "type" /\ ArgOf(line, "val") = "SCHOOL"
    /\ {out.rows[i].type : i \in DOMAIN out.rows} = {"school", "School"}

\* no task matches: success and the header alone
C13_WitnessEmpty ==
    /\ IsList(line) /\ out.status = "success" /\ out.rows = <<>> /\ Len(tasks) = 3

(***************************************************************************)
(* done.                                                                   *)
(***************************************************************************)
\* a done with exactly the key id and an integer value
IsDone(l) ==
    /\ Handled(l) /\ l.cmd = "done"
    /\ KeysOf(l) = {"id"}
    /\ IsInt(ArgOf(l, "id"))

\* the places of ts that hold id n
Holding(ts, n) == {i \in DOMAIN ts : ts[i].id = n}

\* C14: done id=n on a stored task leaves done true whatever it was, so a
\* second done changes nothing more; it changes no other field, no other
\* task and not the id counter; with no task of id n it fails with
\* TaskNotFound and changes nothing.
C14_DoneSetsTrue ==
    (Processed /\ IsDone(line)) =>
        LET hits == Holding(old.tasks, IntOf(ArgOf(line, "id")))
        IN  IF hits = {}
            THEN out.status = "error" /\ out.kind = "TaskNotFound" /\ StoreUnchanged
            ELSE /\ out.status = "success"
                 /\ next_id = old.next_id
                 /\ Len(tasks) = Len(old.tasks)
                 /\ \A i \in DOMAIN tasks :
                        tasks[i] = IF i \in hits THEN [old.tasks[i] EXCEPT !.done = TRUE]
                                   ELSE old.tasks[i]
                 /\ cmd_done(ArgsOf(line.toks)).tasks = tasks

\* done on a task that was done already, another task stored beside it
C14_Witness ==
    /\ IsDone(line) /\ out.status = "success"
    /\ Len(tasks) >= 2
    /\ \E i \in Holding(old.tasks, IntOf(ArgOf(line, "id"))) :
           old.tasks[i].done /\ tasks[i].done

\* done on an id no task holds, in a store that is not empty
C14_WitnessMissing ==
    /\ IsDone(line) /\ out.kind = "TaskNotFound" /\ tasks # <<>>

(***************************************************************************)
(* The id allocator.                                                       *)
(***************************************************************************)
\* C15: in every state the ids of the stored tasks are pairwise distinct,
\* strictly increasing along the store and all below the id counter; no
\* command lowers the counter: only clear_state does.
C15_IdsIncreaseBelowCounter ==
    /\ \A i, j \in DOMAIN tasks : i # j => tasks[i].id # tasks[j].id
    /\ \A i, j \in DOMAIN tasks : i < j => tasks[i].id < tasks[j].id
    /\ \A i \in DOMAIN tasks : tasks[i].id < next_id
    /\ Processed => next_id >= old.next_id

\* an add after deletes: the store holds ids 1 and 2 and the counter is 3
C15_Witness ==
    /\ out.status = "success" /\ line.cmd = "add"
    /\ Len(tasks) = 2 /\ tasks[1].id = 1 /\ tasks[2].id = 2
    /\ next_id = 3 /\ old.next_id = 2

(***************************************************************************)
(* Field values.                                                           *)
(***************************************************************************)
\* NONE or a day-month-year string naming a day of the calendar
ValidDue(s) ==
    \/ s = "NONE"
    \/ /\ DateFields(s) # <<>>
       /\ ValidDate(DateFields(s)[1], DateFields(s)[2], DateFields(s)[3])

\* add name=a <prop>=<val> would be accepted
AddAccepts(prop, val) ==
    cmd_add([k \in {"name", prop} |-> IF k = "name" THEN "a" ELSE val]).err = ""

\* C16: every stored task has rep in {NONE, DAILY, WEEKLY, MONTHLY}, prio in
\* {LOW, MEDIUM, HIGH}, due NONE or a valid calendar date string and a
\* boolean done; a mod of due, rep or prio on a stored task succeeds exactly
\* when add accepts the same value for that field.
C16_FieldValuesValid ==
    /\ \A i \in DOMAIN tasks :
           /\ tasks[i].rep \in {"NONE", "DAILY", "WEEKLY", "MONTHLY"}
           /\ tasks[i].prio \in {"LOW", "MEDIUM", "HIGH"}
           /\ ValidDue(tasks[i].due)
           /\ tasks[i].done \in BOOLEAN
    /\ (/\ Processed
        /\ IsMod(line, {"due", "rep", "prio"})
        /\ Holding(old.tasks, IntOf(ArgOf(line, "id"))) # {}) =>
           (out.status = "success" <=>
                AddAccepts(ArgOf(line, "property"), ArgOf(line, "new_val")))

\* mod sets a due date back to NONE, which add accepts as well
C16_Witness ==
    /\ IsMod(line, {"due"}) /\ ArgOf(line, "new_val") = "NONE"
    /\ out.status = "success"
    /\ \E i \in DOMAIN tasks : old.tasks[i].due # "NONE" /\ tasks[i].due = "NONE"
    /\ \E i \in DOMAIN tasks : tasks[i].rep = "WEEKLY"

\* mod refuses a value add refuses
C16_WitnessRefused ==
    /\ IsMod(line, {"due", "rep", "prio"}) /\ out.status = "error"
    /\ Holding(old.tasks, IntOf(ArgOf(line, "id"))) # {}
    /\ ~AddAccepts(ArgOf(line, "property"), ArgOf(line, "new_val"))

(***************************************************************************)
(* Which command may change what.                                          *)
(***************************************************************************)
IdsOf(ts) == {ts[i].id : i \in DOMAIN ts}

\* the last call was given a line with command word c
Ran(c) == Processed /\ line.text = "cmd" /\ line.cmd = c

\* C17: an id enters the store only by a successful add and leaves it only
\* by a successful delete; help, print and list change neither the store nor
\* the id counter; mod and done add, remove and reorder nothing; and no
\* command changes the id or the ctime of a task that stays.
C17_LifecycleFrame ==
    Processed =>
        /\ IdsOf(tasks) \ IdsOf(old.tasks) # {} => (Ran("add") /\ out.status = "success")
        /\ IdsOf(old.tasks) \ IdsOf(tasks) # {} => (Ran("delete") /\ out.status = "success")
        /\ (Ran("help") \/ Ran("print") \/ Ran("list")) => StoreUnchanged
        /\ (Ran("mod") \/ Ran("done")) =>
               /\ next_id = old.next_id
               /\ Len(tasks) = Len(old.tasks)
               /\ \A i \in DOMAIN tasks : tasks[i].id = old.tasks[i].id
        /\ ~Ran("delete") =>
               \A i \in DOMAIN old.tasks :
                   /\ i \in DOMAIN tasks
                   /\ tasks[i].id = old.tasks[i].id
                   /\ tasks[i].ctime = old.tasks[i].ctime
        /\ \A i \in DOMAIN tasks : \A j \in DOMAIN old.tasks :
               tasks[i].id = old.tasks[j].id => tasks[i].ctime = old.tasks[j].ctime

\* done succeeds on the first of three tasks, which stay where they were
C17_Witness ==
    /\ Ran("done") /\ out.status = "success"
    /\ Len(tasks) = 3
    /\ tasks[1].done /\ ~old.tasks[1].done
    /\ tasks[1].id = 0

(***************************************************************************)
(* mod.                                                                    *)
(***************************************************************************)
\* the value mod stores for new_val: the boolean it names for done, else
\* the string itself
StoredValue(prop, new_val) ==
    IF prop = "done" THEN new_val \in {"True", "true"} ELSE new_val

\* C18: a successful mod id=n property=p new_val=v changes field p of the
\* task with id n to v (for done, to the boolean v names) and nothing else:
\* no other field, no other task, not the id counter; a mod with a
\* recognized property and an integer id that no task has fails with
\* TaskNotFound and changes nothing.
C18_ModChangesOneField ==
    (Processed /\ IsMod(line, PROPERTIES)) =>
        LET hits == Holding(old.tasks, IntOf(ArgOf(line, "id")))
            p == ArgOf(line, "property")
            v == ArgOf(line, "new_val")
        IN  /\ hits = {} =>
                   (out.status = "error" /\ out.kind = "TaskNotFound" /\ StoreUnchanged)
            /\ out.status = "success" =>
                   /\ hits # {}
                   /\ next_id = old.next_id
                   /\ Len(tasks) = Len(old.tasks)
                   /\ \A i \in DOMAIN tasks :
                          tasks[i] = IF i \in hits
                                     THEN [old.tasks[i] EXCEPT ![p] = StoredValue(p, v)]
                                     ELSE old.tasks[i]

\* done is set back to false on the task with id 0, stored behind no other
\* and before another
C18_Witness ==
    /\ IsMod(line, {"done"}) /\ ArgOf(line, "new_val") = "false"
    /\ out.status = "success"
    /\ Len(tasks) >= 2
    /\ old.tasks[1].done /\ ~tasks[1].done

\* the id is not the place: after a delete, id 1 is the first task
C18_WitnessShifted ==
    /\ IsMod(line, {"desc"}) /\ ArgOf(line, "id") = "1"
    /\ out.status = "success"
    /\ tasks[1].id = 1 /\ tasks[1].desc = "x" /\ old.tasks[1].desc = ""
    /\ Len(tasks) = 2

\* no task has the id
C18_WitnessMissing ==
    /\ IsMod(line, PROPERTIES) /\ out.kind = "TaskNotFound" /\ tasks # <<>>

(***************************************************************************)
(* The order of the rows.                                                  *)
(***************************************************************************)
\* a print whose sort arguments validate
IsPrint(l) ==
    /\ Handled(l) /\ l.cmd = "print"
    /\ KeysOf(l) \subseteq AllowedKeys("print")
    /\ Supplied(l, "sort_by", "name") \in PROPERTIES
    /\ Supplied(l, "direction", "asc") \in {"asc", "desc"}

IsView(l) == IsPrint(l) \/ IsList(l)

\* the places of ts a view shows: all for print, the selected for list
Shown(l, ts) ==
    IF l.cmd = "print" THEN DOMAIN ts
    ELSE Selected(ts, ArgOf(l, "property"), ArgOf(l, "val"))

\* the order asked of each field, as a number: strings by code point with
\* letter case set aside for name, type and desc; dates by day with NONE
\* behind every date; LOW < MEDIUM < HIGH; false before true; ctime by the
\* instant; id by value
OrderKey(sort_by, t) ==
    CASE sort_by \in {"name", "type", "desc"} -> StrRank(Lower(t[sort_by]))
      [] sort_by = "due" ->
            IF t.due = "NONE" THEN 4000000
            ELSE ToOrdinal(DateFields(t.due)[1], DateFields(t.due)[2], DateFields(t.due)[3])
      [] sort_by = "rep" -> StrRank(t.rep)
      [] sort_by = "prio" -> (CASE t.prio = "LOW" -> 0 [] t.prio = "MEDIUM" -> 1
                                [] t.prio = "HIGH" -> 2)
      [] sort_by = "done" -> (IF t.done THEN 1 ELSE 0)
      [] sort_by = "ctime" -> CHOOSE n \in DOMAIN CtimeStrings : CtimeStrings[n] = t.ctime
      [] sort_by = "id" -> t.id

\* where the task printed as row t stands in the store
Place(ts, t) == CHOOSE i \in DOMAIN ts : ts[i].id = t.id

\* the rows are the shown tasks, each once
RowsAreShown ==
    LET set == Shown(line, old.tasks)
    IN  /\ out.status = "success" /\ out.shown = "table"
        /\ Len(out.rows) = Cardinality(set)
        /\ Range(out.rows) = {old.tasks[i] : i \in set}

\* C19: print and list with direction=asc, the default, show each task of
\* their set once, in non-decreasing order of the key of the sort field
\* (name by default), and tasks with equal keys in store order.
C19_AscendingStable ==
    (Processed /\ IsView(line) /\ Supplied(line, "direction", "asc") = "asc") =>
        LET by == Supplied(line, "sort_by", "name")
        IN  /\ RowsAreShown
            /\ \A a, b \in DOMAIN out.rows :
                   a < b =>
                       \/ OrderKey(by, out.rows[a]) < OrderKey(by, out.rows[b])
                       \/ /\ OrderKey(by, out.rows[a]) = OrderKey(by, out.rows[b])
                          /\ Place(old.tasks, out.rows[a]) < Place(old.tasks, out.rows[b])

\* print with no argument sorts by name: the two tasks named a keep their
\* store order, B comes last though stored between them
C19_Witness ==
    /\ IsPrint(line) /\ KeysOf(line) = {}
    /\ Len(out.rows) = 3
    /\ out.rows[1].name = "a" /\ out.rows[2].name = "a" /\ out.rows[3].name = "B"
    /\ out.rows[1].id = 0 /\ out.rows[2].id = 2 /\ out.rows[3].id = 1

\* by type: school and School tie and keep their store order
C19_WitnessType ==
    /\ IsPrint(line) /\ Supplied(line, "sort_by", "name") = "type"
    /\ Supplied(line, "direction", "asc") = "asc"
    /\ Len(out.rows) = 2
    /\ out.rows[1].type = "school" /\ out.rows[2].type = "School"

Reverse(sq) == [i \in DOMAIN sq |-> sq[Len(sq) + 1 - i]]

\* the rows the same view prints in the other direction
OtherRows(l) ==
    IF l.cmd = "print" THEN cmd_print(OtherDirection(l)).rows
    ELSE cmd_list(OtherDirection(l)).rows

\* C20 as claimed: the rows of direction=desc are the rows of direction=asc
\* in reverse order, tasks with equal keys included.
C20_DescIsReverseOfAsc ==
    (Processed /\ IsView(line) /\ Supplied(line, "direction", "asc") = "desc") =>
        out.rows = Reverse(OtherRows(line))

\* where task t stands among rows
RowOf(rows, t) == CHOOSE i \in DOMAIN rows : rows[i] = t

\* C20: the rows of direction=desc are the tasks of the direction=asc rows;
\* two tasks with different keys stand in the opposite order, two tasks with
\* equal keys in the same order, which is their store order.
C20_DescReversesKeysKeepsTies ==
    (Processed /\ IsView(line) /\ Supplied(line, "direction", "asc") = "desc") =>
        LET by == Supplied(line, "sort_by", "name")
            asc == OtherRows(line)
        IN  /\ RowsAreShown
            /\ Len(asc) = Len(out.rows) /\ Range(asc) = Range(out.rows)
            /\ \A a, b \in DOMAIN out.rows :
                   a < b =>
                       IF OrderKey(by, out.rows[a]) = OrderKey(by, out.rows[b])
                       THEN /\ RowOf(asc, out.rows[a]) < RowOf(asc, out.rows[b])
                            /\ Place(old.tasks, out.rows[a]) < Place(old.tasks, out.rows[b])
                       ELSE /\ RowOf(asc, out.rows[a]) > RowOf(asc, out.rows[b])
                            /\ OrderKey(by, out.rows[a]) > OrderKey(by, out.rows[b])

\* by priority, descending: HIGH first, then the two MEDIUM tasks in store
\* order, as in the ascending rows
C20_Witness ==
    /\ IsPrint(line) /\ Supplied(line, "direction", "asc") = "desc"
    /\ Supplied(line, "sort_by", "name") = "prio"
    /\ Len(out.rows) = 3
    /\ out.rows[1].prio = "HIGH"
    /\ out.rows[2].prio = "MEDIUM" /\ out.rows[3].prio = "MEDIUM"
    /\ out.rows[2].id < out.rows[3].id

\* ---- C21 ----

\* the line has text in its argument segment that is not a key=value token
HasStrayText(l) == \E i \in DOMAIN l.toks : l.toks[i].junk

\* a command line within the length limit, which reaches the tokenizer
Tokenized(l) == l.text = "cmd" /\ l.len <= MaxLineLen

\* C21: a command line whose argument segment holds any text that is not a
\* key=value token (after the last token, between two tokens or before the
\* first one) fails with InvalidArgument and leaves the store unchanged.
C21_StrayTextFails ==
    (Processed /\ Tokenized(line) /\ HasStrayText(line)) =>
        /\ out.status = "error" /\ out.kind = "InvalidArgument"
        /\ StoreUnchanged

\* the part of C21 the tokenizer does enforce: text after the last
\* key=value token fails with InvalidArgument and leaves the store unchanged
C21_TrailingTextFails ==
    (Processed /\ Tokenized(line) /\ ~NoTrailingText(line)) =>
        /\ out.status = "error" /\ out.kind = "InvalidArgument" /\ out.raised
        /\ StoreUnchanged

\* a mod line with text between two tokens was executed and changed the store
C21_ExecutedWithStrayText ==
    /\ Tokenized(line) /\ line.cmd = "mod"
    /\ \E i \in DOMAIN line.toks :
           /\ line.toks[i].junk
           /\ \E j, k \in DOMAIN line.toks :
                  j < i /\ i < k /\ ~line.toks[j].junk /\ ~line.toks[k].junk
    /\ out.status = "success"
    /\ tasks # old.tasks
====
